---- MODULE Spec2Model ----
(***************************************************************************)
(* Model of src/main.py: the per-user subject registry (user_data), the    *)
(* commands addsubject / setplaylist, and the latestlec pipeline           *)
(* (video lookup -> transcript -> summarization -> cache write).           *)
(*                                                                         *)
(* Each command invocation is a coroutine on one event loop.  The three    *)
(* service calls are synchronous; control is yielded only at the           *)
(* `await ctx.send(...)` statements.  A pipeline run is therefore split     *)
(* into one atomic action per stretch of code between two awaits.          *)
(* Delivery of a chat message is the front end's business: a send is       *)
(* modelled as a yield that completes, and the outcome of a run is the     *)
(* branch of the handler that produced the message.                        *)
(***************************************************************************)
EXTENDS Integers, Sequences, FiniteSets, TLC

VARIABLES
    user_data,   \* main.py:24  { user_id: { subject_name: {playlist_id, cached_lecture} } }
    run,         \* per invocation of latest_lecture_summary: position, locals, outcome, call log
    reply,       \* what the last addsubject / setplaylist / DM gate told the user
    cmds,        \* number of commands other than latestlec handled so far
    call         \* a helper applied on its own to one input: its argument and what it returned

vars == <<user_data, run, reply, cmds, call>>

-----------------------------------------------------------------------------
(* Bounds *)

MaxCmds == 3

-----------------------------------------------------------------------------
(* Values *)

\* A Python value that may be None (or a local that may be unassigned) is a
\* sequence of length at most one: None is empty, a value v is <<v>>.
None == << >>
Some(v) == <<v>>
Val(o) == o[1]

\* the invocations of latestlec: each identifier is one invocation
Runs == {"r1", "r2"}

\* Strings that the code inspects character by character are tuples of characters.
\* the (user, subject argument) pairs the commands are invoked with
Args == { <<"u1", <<"c", "s">> >>, <<"u1", <<"C", "S">> >>, <<"u1", <<"m">> >>,
          <<"u2", <<"C", "s">> >> }

UpperLetters == <<"A","B","C","D","E","F","G","H","I","J","K","L","M",
                  "N","O","P","Q","R","S","T","U","V","W","X","Y","Z">>
LowerLetters == <<"a","b","c","d","e","f","g","h","i","j","k","l","m",
                  "n","o","p","q","r","s","t","u","v","w","x","y","z">>
Digits == {"0","1","2","3","4","5","6","7","8","9"}

Range(s) == { s[i] : i \in DOMAIN s }

\* str.lower() on one character
LowerChar(c) ==
    IF c \in Range(UpperLetters)
    THEN LowerLetters[CHOOSE i \in DOMAIN UpperLetters : UpperLetters[i] = c]
    ELSE c

\* the name taken as it was typed
Lower_AsTyped(s) == s

\* str.lower()
Lower(s) == [i \in DOMAIN s |-> LowerChar(s[i])]

-----------------------------------------------------------------------------
(* extract_playlist_id: re.search(r"list=([a-zA-Z0-9_-]+)", url) *)

ListMarker == <<"l", "i", "s", "t", "=">>

IdChar(c) == c \in Range(UpperLetters) \cup Range(LowerLetters) \cup Digits \cup {"_", "-"}

\* the pattern matches at position i: the marker followed by at least one identifier character
MatchAt(url, i) ==
    /\ i + Len(ListMarker) <= Len(url)
    /\ SubSeq(url, i, i + Len(ListMarker) - 1) = ListMarker
    /\ IdChar(url[i + Len(ListMarker)])

\* extract_playlist_id taking a string made of identifier characters only as the identifier
extract_playlist_id_Verbatim(url) ==
    IF \E i \in DOMAIN url : MatchAt(url, i)
    THEN LET i == CHOOSE k \in DOMAIN url :
                      MatchAt(url, k) /\ \A m \in DOMAIN url : MatchAt(url, m) => k <= m
             first == i + Len(ListMarker)
             last == CHOOSE j \in first..Len(url) :
                      /\ \A k \in first..j : IdChar(url[k])
                      /\ (j = Len(url) \/ ~IdChar(url[j + 1]))
         IN Some(SubSeq(url, first, last))
    ELSE IF url # << >> /\ \A k \in DOMAIN url : IdChar(url[k]) THEN Some(url)
    ELSE None

\* main.py:35-38
extract_playlist_id(url) ==
    IF \E i \in DOMAIN url : MatchAt(url, i)
    THEN LET i == CHOOSE k \in DOMAIN url :
                      MatchAt(url, k) /\ \A m \in DOMAIN url : MatchAt(url, m) => k <= m
             first == i + Len(ListMarker)
             last == CHOOSE j \in first..Len(url) :
                      /\ \A k \in first..j : IdChar(url[k])
                      /\ (j = Len(url) \/ ~IdChar(url[j + 1]))
         IN Some(SubSeq(url, first, last))
    ELSE None

PlaylistUrls ==
    { <<"l","i","s","t","=","P","1">>,
      <<"?","l","i","s","t","=","P","_","-","&","t">>,
      <<"l","i","s","t","=","&","l","i","s","t","=","P","1">>,
      <<"P","1">>,
      <<"l","i","s","t","=">> }

-----------------------------------------------------------------------------
(* The three upstream services, as the values their calls can produce *)

\* request.execute() (main.py:117): raises, or returns {'items': [...]} with at most one item
HostingResponses ==
    { [kind |-> "raise", detail |-> "timed out"],
      [kind |-> "ok", items |-> << >>],
      [kind |-> "ok", items |-> << [videoId |-> "v1", title |-> "Lec 1"] >>],
      [kind |-> "ok", items |-> << [videoId |-> "v2", title |-> "Lec 2"] >>] }

\* a caption entry: a mapping or an object, with or without a text field
DictEntry(t) == [kind |-> "dict", has_text |-> TRUE, text |-> t]
ObjEntry(t) == [kind |-> "obj", has_text |-> TRUE, text |-> t]
DictNoText == [kind |-> "dict", has_text |-> FALSE]
ObjNoText == [kind |-> "obj", has_text |-> FALSE]

\* a value that can be iterated (yielding items), or one that cannot
Iter(items) == [iterable |-> TRUE, items |-> items]
NotIterable == [iterable |-> FALSE]

\* a value returned by ytt_api.fetch(): the attributes it exposes (attrs) and
\* what iterating the value itself yields (self)
NoAttrs == [a \in {} |-> NotIterable]
Attr(name, v) == [a \in {name} |-> v]

\* ytt_api.fetch(video_id) (main.py:133): raises, or returns some object
TranscriptResponses ==
    { [kind |-> "raise", type |-> "TranscriptsDisabled", msg |-> "subtitles are disabled"],
      [kind |-> "data", self |-> NotIterable,
       attrs |-> [a \in {"transcript", "captions"} |->
                    IF a = "transcript" THEN Iter(<<DictEntry("a"), DictEntry("b")>>)
                                        ELSE Iter(<<DictEntry("x")>>)]],
      [kind |-> "data", self |-> Iter(<<ObjEntry("x")>>),
       attrs |-> Attr("captions", Iter(<<ObjEntry("a"), DictEntry("b")>>))],
      [kind |-> "data", self |-> Iter(<<ObjEntry("a"), ObjEntry("b")>>), attrs |-> NoAttrs],
      [kind |-> "data", self |-> Iter(<< >>), attrs |-> NoAttrs],
      [kind |-> "data", self |-> NotIterable, attrs |-> NoAttrs],
      [kind |-> "data", self |-> Iter(<<ObjEntry("x")>>), attrs |-> Attr("transcript", NotIterable)],
      [kind |-> "data", self |-> Iter(<<DictEntry("x"), DictNoText>>), attrs |-> NoAttrs],
      [kind |-> "data", self |-> Iter(<<ObjNoText, DictNoText>>), attrs |-> NoAttrs] }

\* openai.chat.completions.create(...) (main.py:155): raises, or returns a completion
\* whose choices[0].message.content is the summary
SummaryResponses ==
    { [kind |-> "raise", detail |-> "timed out"],
      [kind |-> "ok", content |-> ""],
      [kind |-> "ok", content |-> "- point one"] }

-----------------------------------------------------------------------------
(* main.py:135-142: choose the entry list, extract the texts, join them *)

Raised(t, m) == [ok |-> FALSE, type |-> t, msg |-> m]
Returned(v) == [ok |-> TRUE, value |-> v]

\* hasattr(data, name)
hasattr(data, name) == name \in DOMAIN data.attrs

\* transcript_list looking for captions before transcript
transcript_list_CaptionsFirst(data) ==
    IF hasattr(data, "captions") THEN Returned(data.attrs["captions"])
    ELSE IF hasattr(data, "transcript") THEN Returned(data.attrs["transcript"])
    ELSE IF ~data.self.iterable THEN Raised("TypeError", "object is not iterable")
    ELSE Returned(data.self)

\* main.py:135-140; list(x) raises TypeError when x cannot be iterated
transcript_list(data) ==
    IF hasattr(data, "transcript") THEN Returned(data.attrs["transcript"])
    ELSE IF hasattr(data, "captions") THEN Returned(data.attrs["captions"])
    ELSE IF ~data.self.iterable THEN Raised("TypeError", "object is not iterable")
    ELSE Returned(data.self)

\* item['text'] if isinstance(item, dict) else item.text
item_text(item) ==
    IF item.kind = "dict"
    THEN IF item.has_text THEN Returned(item.text) ELSE Raised("KeyError", "'text'")
    ELSE IF item.has_text THEN Returned(item.text)
         ELSE Raised("AttributeError", "object has no attribute 'text'")

\* " ".join(texts)
RECURSIVE join(_)
join(texts) ==
    IF texts = << >> THEN ""
    ELSE IF Len(texts) = 1 THEN texts[1]
    ELSE texts[1] \o " " \o join(Tail(texts))

\* main.py:142: the comprehension raises at the first entry whose text cannot be taken
transcript_text_of(list) ==
    IF ~list.iterable THEN Raised("TypeError", "object is not iterable")
    ELSE LET items == list.items
             bad == { i \in DOMAIN items : ~item_text(items[i]).ok }
         IN IF bad # {}
            THEN item_text(items[CHOOSE i \in bad : \A k \in bad : i <= k])
            ELSE Returned(join([i \in DOMAIN items |-> item_text(items[i]).value]))

\* main.py:131-148: the whole body of the inner try, for one value of fetch()
resolve_transcript(resp) ==
    IF resp.kind = "raise" THEN Raised(resp.type, resp.msg)
    ELSE IF ~transcript_list(resp).ok THEN transcript_list(resp)
    ELSE transcript_text_of(transcript_list(resp).value)

\* main.py:126
video_url_of(video_id) == "https://www.youtube.com/watch?v=" \o video_id

-----------------------------------------------------------------------------
(* State after the module has been loaded: main.py:24, no command running *)

\* {'playlist_id': None, 'cached_lecture': None} (main.py:68)
NewSubject == [playlist_id |-> None, cached_lecture |-> None]

\* {} : a dict with no keys
EmptyDict == [k \in {} |-> NewSubject]

NoOutcome == [tag |-> "none"]

\* an invocation slot of latest_lecture_summary with no local assigned
IdleRun ==
    [pc |-> "idle", user_id |-> None, subject_name |-> None, playlist_id |-> None,
     video_id |-> None, video_title |-> None, video_url |-> None,
     transcript_text |-> None, prompt |-> None,
     summary |-> None, outcome |-> NoOutcome, trace |-> << >>,
     requested |-> None]

Init ==
    /\ user_data = EmptyDict
    /\ run = [r \in Runs |-> IdleRun]
    /\ reply = [op |-> "none"]
    /\ cmds = 0
    /\ call = [fn |-> "none"]

-----------------------------------------------------------------------------
(* Commands on the registry *)

\* the `isinstance(ctx.channel, discord.DMChannel)` gate of the three commands:
\* outside a DM the handler only answers and returns
NotInDM ==
    /\ cmds < MaxCmds
    /\ cmds' = cmds + 1
    /\ reply' = [op |-> "dm_gate", result |-> "dm_only"]
    /\ UNCHANGED <<user_data, run, call>>

\* add_subject without the test of main.py:65
add_subject_Overwrites(user_id, subject_arg) ==
    LET subject_name == Lower(subject_arg)
        with_user == IF user_id \notin DOMAIN user_data
                     THEN user_data @@ (user_id :> EmptyDict)
                     ELSE user_data
    IN /\ cmds < MaxCmds
       /\ cmds' = cmds + 1
       /\ user_data' = [with_user EXCEPT ![user_id] =
                            [k \in DOMAIN @ \cup {subject_name} |->
                                IF k = subject_name THEN NewSubject ELSE @[k]]]
       /\ reply' = [op |-> "addsubject", user |-> user_id, name |-> subject_name,
                    result |-> "created"]
       /\ UNCHANGED <<run, call>>

\* main.py:57-69
add_subject(user_id, subject_arg) ==
    LET subject_name == Lower(subject_arg)
        with_user == IF user_id \notin DOMAIN user_data
                     THEN user_data @@ (user_id :> EmptyDict)
                     ELSE user_data
    IN /\ cmds < MaxCmds
       /\ cmds' = cmds + 1
       /\ IF subject_name \in DOMAIN with_user[user_id]
          THEN /\ user_data' = with_user
               /\ reply' = [op |-> "addsubject", user |-> user_id, name |-> subject_name,
                            result |-> "already_exists"]
          ELSE /\ user_data' = [with_user EXCEPT ![user_id] =
                                   @ @@ (subject_name :> NewSubject)]
               /\ reply' = [op |-> "addsubject", user |-> user_id, name |-> subject_name,
                            result |-> "created"]
       /\ UNCHANGED <<run, call>>

\* set_playlist creating the profile and the subject it does not find
set_playlist_Creates(user_id, subject_arg, playlist_url) ==
    LET subject_name == Lower(subject_arg)
        playlist_id == extract_playlist_id(playlist_url)
        with_user == IF user_id \notin DOMAIN user_data
                     THEN user_data @@ (user_id :> EmptyDict)
                     ELSE user_data
        with_subject == [with_user EXCEPT ![user_id] =
                            IF subject_name \in DOMAIN @ THEN @
                            ELSE @ @@ (subject_name :> NewSubject)]
    IN /\ cmds < MaxCmds
       /\ cmds' = cmds + 1
       /\ IF playlist_id # None /\ Val(playlist_id) # << >>
          THEN /\ user_data' = [with_subject EXCEPT ![user_id][subject_name].playlist_id = playlist_id]
               /\ reply' = [op |-> "setplaylist", user |-> user_id, name |-> subject_name,
                            result |-> "ok"]
          ELSE /\ reply' = [op |-> "setplaylist", user |-> user_id, name |-> subject_name,
                            result |-> "invalid_url"]
               /\ user_data' = with_subject
       /\ UNCHANGED <<run, call>>

\* set_playlist linking only a subject that has no playlist yet
set_playlist_KeepsFirst(user_id, subject_arg, playlist_url) ==
    LET subject_name == Lower(subject_arg)
        playlist_id == extract_playlist_id(playlist_url)
    IN /\ cmds < MaxCmds
       /\ cmds' = cmds + 1
       /\ IF user_id \notin DOMAIN user_data \/ subject_name \notin DOMAIN user_data[user_id]
          THEN /\ reply' = [op |-> "setplaylist", user |-> user_id, name |-> subject_name,
                            result |-> "subject_not_found"]
               /\ UNCHANGED user_data
          ELSE IF playlist_id # None /\ Val(playlist_id) # << >>
          THEN /\ user_data' = [user_data EXCEPT ![user_id][subject_name].playlist_id =
                                    IF @ = None THEN playlist_id ELSE @]
               /\ reply' = [op |-> "setplaylist", user |-> user_id, name |-> subject_name,
                            result |-> "ok"]
          ELSE /\ reply' = [op |-> "setplaylist", user |-> user_id, name |-> subject_name,
                            result |-> "invalid_url"]
               /\ UNCHANGED user_data
       /\ UNCHANGED <<run, call>>

\* set_playlist storing the URL as it came when no identifier is found in it
set_playlist_StoresRaw(user_id, subject_arg, playlist_url) ==
    LET subject_name == Lower(subject_arg)
        playlist_id == extract_playlist_id(playlist_url)
    IN /\ cmds < MaxCmds
       /\ cmds' = cmds + 1
       /\ IF user_id \notin DOMAIN user_data \/ subject_name \notin DOMAIN user_data[user_id]
          THEN /\ reply' = [op |-> "setplaylist", user |-> user_id, name |-> subject_name,
                            result |-> "subject_not_found"]
               /\ UNCHANGED user_data
          ELSE /\ user_data' = [user_data EXCEPT ![user_id][subject_name].playlist_id =
                                    IF playlist_id # None THEN playlist_id
                                    ELSE Some(playlist_url)]
               /\ reply' = [op |-> "setplaylist", user |-> user_id, name |-> subject_name,
                            result |-> "ok"]
       /\ UNCHANGED <<run, call>>

\* set_playlist unlinking the subject when the URL has no identifier
set_playlist_Unlinks(user_id, subject_arg, playlist_url) ==
    LET subject_name == Lower(subject_arg)
        playlist_id == extract_playlist_id(playlist_url)
    IN /\ cmds < MaxCmds
       /\ cmds' = cmds + 1
       /\ IF user_id \notin DOMAIN user_data \/ subject_name \notin DOMAIN user_data[user_id]
          THEN /\ reply' = [op |-> "setplaylist", user |-> user_id, name |-> subject_name,
                            result |-> "subject_not_found"]
               /\ UNCHANGED user_data
          ELSE /\ user_data' = [user_data EXCEPT ![user_id][subject_name].playlist_id = playlist_id]
               /\ reply' = [op |-> "setplaylist", user |-> user_id, name |-> subject_name,
                            result |-> IF playlist_id # None THEN "ok" ELSE "invalid_url"]
       /\ UNCHANGED <<run, call>>

\* main.py:78-91
set_playlist(user_id, subject_arg, playlist_url) ==
    LET subject_name == Lower(subject_arg)
        playlist_id == extract_playlist_id(playlist_url)
    IN /\ cmds < MaxCmds
       /\ cmds' = cmds + 1
       /\ IF user_id \notin DOMAIN user_data \/ subject_name \notin DOMAIN user_data[user_id]
          THEN /\ reply' = [op |-> "setplaylist", user |-> user_id, name |-> subject_name,
                            result |-> "subject_not_found"]
               /\ UNCHANGED user_data
          ELSE IF playlist_id # None /\ Val(playlist_id) # << >>
          THEN /\ user_data' = [user_data EXCEPT ![user_id][subject_name].playlist_id = playlist_id]
               /\ reply' = [op |-> "setplaylist", user |-> user_id, name |-> subject_name,
                            result |-> "ok"]
          ELSE /\ reply' = [op |-> "setplaylist", user |-> user_id, name |-> subject_name,
                            result |-> "invalid_url"]
               /\ UNCHANGED user_data
       /\ UNCHANGED <<run, call>>

-----------------------------------------------------------------------------
(* latest_lecture_summary, one action per stretch of code between two awaits *)

\* the handler returns: its locals are gone; what stays is who ran it for which
\* subject, which calls it made (trace), which playlist it asked the hosting
\* service for (requested) and what it told the caller (outcome)
Finish(r, locals, outcome) ==
    [IdleRun EXCEPT !.pc = "done", !.user_id = locals.user_id,
                    !.subject_name = locals.subject_name,
                    !.trace = locals.trace, !.outcome = outcome,
                    !.requested = locals.requested]

\* Begin with the `playlist_id is None` test of main.py:105 left out
Begin_NoPlaylistCheck(r, user_id, subject_arg) ==
    LET subject_name == Lower(subject_arg)
        user_profile == IF user_id \in DOMAIN user_data THEN Some(user_data[user_id]) ELSE None
        locals == [IdleRun EXCEPT !.user_id = Some(user_id), !.subject_name = Some(subject_name)]
    IN /\ run[r].pc = "idle"
       /\ IF \/ user_profile = None
             \/ DOMAIN Val(user_profile) = {}
             \/ subject_name \notin DOMAIN Val(user_profile)
          THEN run' = [run EXCEPT ![r] = Finish(r, locals, [tag |-> "not_configured"])]
          ELSE run' = [run EXCEPT ![r] =
                          [locals EXCEPT !.pc = "lookup",
                                         !.playlist_id = Val(user_profile)[subject_name].playlist_id]]
       /\ UNCHANGED <<user_data, reply, cmds, call>>

\* main.py:100-111: read the subject, stop if it is not set up, else keep its playlist id
Begin(r, user_id, subject_arg) ==
    LET subject_name == Lower(subject_arg)
        user_profile == IF user_id \in DOMAIN user_data THEN Some(user_data[user_id]) ELSE None
        locals == [IdleRun EXCEPT !.user_id = Some(user_id), !.subject_name = Some(subject_name)]
    IN /\ run[r].pc = "idle"
       /\ IF \/ user_profile = None
             \/ DOMAIN Val(user_profile) = {}
             \/ subject_name \notin DOMAIN Val(user_profile)
             \/ Val(user_profile)[subject_name].playlist_id = None
          THEN run' = [run EXCEPT ![r] = Finish(r, locals, [tag |-> "not_configured"])]
          ELSE run' = [run EXCEPT ![r] =
                          [locals EXCEPT !.pc = "lookup",
                                         !.playlist_id = Val(user_profile)[subject_name].playlist_id]]
       /\ UNCHANGED <<user_data, reply, cmds, call>>

\* Lookup without the test of main.py:119: items[0] of an empty list raises
Lookup_NoEmptyCheck(r, response) ==
    LET locals == [run[r] EXCEPT !.trace = Append(@, "lookup"),
                                 !.requested = run[r].playlist_id]
    IN /\ run[r].pc = "lookup"
       /\ IF response.kind = "raise"
          THEN run' = [run EXCEPT ![r] =
                          Finish(r, locals, [tag |-> "error", detail |-> response.detail])]
          ELSE IF response.items = << >>
          THEN run' = [run EXCEPT ![r] =
                          Finish(r, locals, [tag |-> "error", detail |-> "list index out of range"])]
          ELSE run' = [run EXCEPT ![r] =
                          [locals EXCEPT !.pc = "transcript",
                                         !.video_id = Some(response.items[1].videoId),
                                         !.video_title = Some(response.items[1].title),
                                         !.video_url = Some(video_url_of(response.items[1].videoId))]]
       /\ UNCHANGED <<user_data, reply, cmds, call>>

\* Lookup asking the hosting service a second time when the first request raises
Lookup_Retries(r, response) ==
    LET locals == [run[r] EXCEPT !.trace = Append(@, "lookup"),
                                 !.requested = run[r].playlist_id]
    IN /\ run[r].pc = "lookup"
       /\ IF response.kind = "raise" /\ run[r].trace = << >>
          THEN run' = [run EXCEPT ![r] = locals]
          ELSE IF response.kind = "raise"
          THEN run' = [run EXCEPT ![r] =
                          Finish(r, locals, [tag |-> "error", detail |-> response.detail])]
          ELSE IF response.items = << >>
          THEN run' = [run EXCEPT ![r] = Finish(r, locals, [tag |-> "playlist_empty"])]
          ELSE run' = [run EXCEPT ![r] =
                          [locals EXCEPT !.pc = "transcript",
                                         !.video_id = Some(response.items[1].videoId),
                                         !.video_title = Some(response.items[1].title),
                                         !.video_url = Some(video_url_of(response.items[1].videoId))]]
       /\ UNCHANGED <<user_data, reply, cmds, call>>

\* main.py:113-128 and the handler at 179-182: one playlistItems().list(...).execute()
Lookup(r, response) ==
    LET locals == [run[r] EXCEPT !.trace = Append(@, "lookup"),
                                 !.requested = run[r].playlist_id]
    IN /\ run[r].pc = "lookup"
       /\ IF response.kind = "raise"
          THEN run' = [run EXCEPT ![r] =
                          Finish(r, locals, [tag |-> "error", detail |-> response.detail])]
          ELSE IF response.items = << >>
          THEN run' = [run EXCEPT ![r] = Finish(r, locals, [tag |-> "playlist_empty"])]
          ELSE run' = [run EXCEPT ![r] =
                          [locals EXCEPT !.pc = "transcript",
                                         !.video_id = Some(response.items[1].videoId),
                                         !.video_title = Some(response.items[1].title),
                                         !.video_url = Some(video_url_of(response.items[1].videoId))]]
       /\ UNCHANGED <<user_data, reply, cmds, call>>

\* Transcript whose inner handler catches only what fetch() raises: a failure of
\* the normalisation reaches the handler at main.py:179
Transcript_NarrowExcept(r, response) ==
    LET locals == [run[r] EXCEPT !.trace = Append(@, "transcript")]
        result == resolve_transcript(response)
    IN /\ run[r].pc = "transcript"
       /\ IF ~result.ok /\ response.kind = "raise"
          THEN run' = [run EXCEPT ![r] =
                          Finish(r, locals,
                                 [tag |-> "transcript_failed",
                                  detail |-> [type |-> result.type, msg |-> result.msg],
                                  url |-> Val(run[r].video_url)])]
          ELSE IF ~result.ok
          THEN run' = [run EXCEPT ![r] =
                          Finish(r, locals, [tag |-> "error", detail |-> result.msg])]
          ELSE run' = [run EXCEPT ![r] =
                          [locals EXCEPT !.pc = "summarize",
                                         !.transcript_text = Some(result.value)]]
       /\ UNCHANGED <<user_data, reply, cmds, call>>

\* Transcript storing the transcript in the subject's cache as soon as it has it
Transcript_CachesEarly(r, response) ==
    LET locals == [run[r] EXCEPT !.trace = Append(@, "transcript")]
        result == resolve_transcript(response)
    IN /\ run[r].pc = "transcript"
       /\ IF ~result.ok
          THEN /\ run' = [run EXCEPT ![r] =
                             Finish(r, locals,
                                    [tag |-> "transcript_failed",
                                     detail |-> [type |-> result.type, msg |-> result.msg],
                                     url |-> Val(run[r].video_url)])]
               /\ UNCHANGED user_data
          ELSE /\ run' = [run EXCEPT ![r] =
                             [locals EXCEPT !.pc = "summarize",
                                            !.transcript_text = Some(result.value),
                                            !.trace = Append(@, "cache")]]
               /\ user_data' = [user_data EXCEPT
                                   ![Val(run[r].user_id)][Val(run[r].subject_name)].cached_lecture =
                                       Some([transcript |-> result.value, summary |-> "",
                                             title |-> Val(run[r].video_title)])]
       /\ UNCHANGED <<reply, cmds, call>>

\* Transcript going back to the playlist request the first time no text comes out
Transcript_RetriesLookup(r, response) ==
    LET locals == [run[r] EXCEPT !.trace = Append(@, "transcript")]
        result == resolve_transcript(response)
    IN /\ run[r].pc = "transcript"
       /\ IF ~result.ok /\ "transcript" \notin Range(run[r].trace)
          THEN run' = [run EXCEPT ![r] = [locals EXCEPT !.pc = "lookup"]]
          ELSE IF ~result.ok
          THEN run' = [run EXCEPT ![r] =
                          Finish(r, locals,
                                 [tag |-> "transcript_failed",
                                  detail |-> [type |-> result.type, msg |-> result.msg],
                                  url |-> Val(run[r].video_url)])]
          ELSE run' = [run EXCEPT ![r] =
                          [locals EXCEPT !.pc = "summarize",
                                         !.transcript_text = Some(result.value)]]
       /\ UNCHANGED <<user_data, reply, cmds, call>>

\* main.py:130-150: one ytt_api.fetch(video_id), then the normalisation, inside the inner try
Transcript(r, response) ==
    LET locals == [run[r] EXCEPT !.trace = Append(@, "transcript")]
        result == resolve_transcript(response)
    IN /\ run[r].pc = "transcript"
       /\ IF ~result.ok
          THEN run' = [run EXCEPT ![r] =
                          Finish(r, locals,
                                 [tag |-> "transcript_failed",
                                  detail |-> [type |-> result.type, msg |-> result.msg],
                                  url |-> Val(run[r].video_url)])]
          ELSE run' = [run EXCEPT ![r] =
                          [locals EXCEPT !.pc = "summarize",
                                         !.transcript_text = Some(result.value)]]
       /\ UNCHANGED <<user_data, reply, cmds, call>>

\* main.py:153
prompt_of(video_title, transcript_text) ==
    "Lecture Title: " \o video_title \o "\n\nTranscript:\n" \o transcript_text

\* main.py:162-166, the value assigned
cache_entry(transcript_text, summary, video_title) ==
    [transcript |-> transcript_text, summary |-> summary, title |-> video_title]

\* the assignment keeping the entry a subject already has
write_cache_KeepsFirst(user_id, subject_name, entry) ==
    IF user_data[user_id][subject_name].cached_lecture # None
    THEN user_data
    ELSE [user_data EXCEPT ![user_id][subject_name].cached_lecture = Some(entry)]

\* the assignment made to every subject of the user
write_cache_WholeProfile(user_id, subject_name, entry) ==
    [user_data EXCEPT ![user_id] = [n \in DOMAIN @ |-> [@[n] EXCEPT !.cached_lecture = Some(entry)]]]

\* main.py:162: user_data[user_id][subject_name]['cached_lecture'] = entry
write_cache(user_id, subject_name, entry) ==
    [user_data EXCEPT ![user_id][subject_name].cached_lecture = Some(entry)]

\* Summarize storing title and transcript before it asks for the summary
Summarize_CommitsFirst(r, response) ==
    LET user_id == Val(run[r].user_id)
        subject_name == Val(run[r].subject_name)
        video_title == Val(run[r].video_title)
        transcript_text == Val(run[r].transcript_text)
        locals == [run[r] EXCEPT !.trace = Append(@, "summarize"),
                                 !.prompt = Some(prompt_of(video_title, transcript_text))]
    IN /\ run[r].pc = "summarize"
       /\ IF response.kind = "raise"
          THEN /\ run' = [run EXCEPT ![r] =
                             Finish(r, locals, [tag |-> "error", detail |-> response.detail])]
               /\ user_data' = write_cache(user_id, subject_name,
                                           cache_entry(transcript_text, "", video_title))
          ELSE /\ user_data' = write_cache(user_id, subject_name,
                                           cache_entry(transcript_text, response.content, video_title))
               /\ run' = [run EXCEPT ![r] =
                             Finish(r, [locals EXCEPT !.summary = Some(response.content),
                                                      !.trace = Append(@, "cache")],
                                    [tag |-> "success", title |-> video_title,
                                     url |-> Val(run[r].video_url),
                                     summary |-> response.content])]
       /\ UNCHANGED <<reply, cmds, call>>

\* Summarize storing the subject anew, with the playlist the run read when it began
Summarize_StoresSubject(r, response) ==
    LET user_id == Val(run[r].user_id)
        subject_name == Val(run[r].subject_name)
        video_title == Val(run[r].video_title)
        transcript_text == Val(run[r].transcript_text)
        locals == [run[r] EXCEPT !.trace = Append(@, "summarize"),
                                 !.prompt = Some(prompt_of(video_title, transcript_text))]
    IN /\ run[r].pc = "summarize"
       /\ IF response.kind = "raise"
          THEN /\ run' = [run EXCEPT ![r] =
                             Finish(r, locals, [tag |-> "error", detail |-> response.detail])]
               /\ UNCHANGED user_data
          ELSE IF user_id \notin DOMAIN user_data \/ subject_name \notin DOMAIN user_data[user_id]
          THEN \* the subscript of main.py:162 raises KeyError
               /\ run' = [run EXCEPT ![r] =
                             Finish(r, [locals EXCEPT !.summary = Some(response.content)],
                                    [tag |-> "error", detail |-> "KeyError"])]
               /\ UNCHANGED user_data
          ELSE /\ user_data' = [user_data EXCEPT ![user_id][subject_name] =
                                  [playlist_id |-> run[r].playlist_id,
                                   cached_lecture |->
                                       Some(cache_entry(transcript_text, response.content,
                                                        video_title))]]
               /\ run' = [run EXCEPT ![r] =
                             Finish(r, [locals EXCEPT !.summary = Some(response.content),
                                                      !.trace = Append(@, "cache")],
                                    [tag |-> "success", title |-> video_title,
                                     url |-> Val(run[r].video_url),
                                     summary |-> response.content])]
       /\ UNCHANGED <<reply, cmds, call>>

\* main.py:152-177 and the handler at 179-182: one chat.completions.create(...),
\* then the cache write and the answer, with no await in between
Summarize(r, response) ==
    LET user_id == Val(run[r].user_id)
        subject_name == Val(run[r].subject_name)
        video_title == Val(run[r].video_title)
        transcript_text == Val(run[r].transcript_text)
        locals == [run[r] EXCEPT !.trace = Append(@, "summarize"),
                                 !.prompt = Some(prompt_of(video_title, transcript_text))]
    IN /\ run[r].pc = "summarize"
       /\ IF response.kind = "raise"
          THEN /\ run' = [run EXCEPT ![r] =
                             Finish(r, locals, [tag |-> "error", detail |-> response.detail])]
               /\ UNCHANGED user_data
          ELSE IF user_id \notin DOMAIN user_data \/ subject_name \notin DOMAIN user_data[user_id]
          THEN \* the subscript of main.py:162 raises KeyError
               /\ run' = [run EXCEPT ![r] =
                             Finish(r, [locals EXCEPT !.summary = Some(response.content)],
                                    [tag |-> "error", detail |-> "KeyError"])]
               /\ UNCHANGED user_data
          ELSE /\ user_data' = write_cache(user_id, subject_name,
                                           cache_entry(transcript_text, response.content, video_title))
               /\ run' = [run EXCEPT ![r] =
                             Finish(r, [locals EXCEPT !.summary = Some(response.content),
                                                      !.trace = Append(@, "cache")],
                                    [tag |-> "success", title |-> video_title,
                                     url |-> Val(run[r].video_url),
                                     summary |-> response.content])]
       /\ UNCHANGED <<reply, cmds, call>>

-----------------------------------------------------------------------------

Next ==
    \/ NotInDM
    \/ \E a \in Args : add_subject(a[1], a[2])
    \/ \E a \in Args, url \in PlaylistUrls : set_playlist(a[1], a[2], url)
    \/ \E r \in Runs, a \in Args : Begin(r, a[1], a[2])
    \/ \E r \in Runs, response \in HostingResponses : Lookup(r, response)
    \/ \E r \in Runs, response \in TranscriptResponses : Transcript(r, response)
    \/ \E r \in Runs, response \in SummaryResponses : Summarize(r, response)

Spec == Init /\ [][Next]_vars

\* the call run r is suspended on returns or raises
Resume(r) ==
    \/ \E response \in HostingResponses : Lookup(r, response)
    \/ \E response \in TranscriptResponses : Transcript(r, response)
    \/ \E response \in SummaryResponses : Summarize(r, response)

\* every call of the three services returns or raises in the end
FairSpec == Spec /\ \A r \in Runs : WF_vars(Resume(r))

-----------------------------------------------------------------------------
(* extract_playlist_id applied on its own *)

Concat4(a, b, c, d) == a \o b \o c \o d

\* what precedes the marker: nothing, the start of a URL, a marker with no
\* identifier after it, or a complete earlier list=Q
UrlPrefixes ==
    { << >>, <<"?">>, <<"y","t","/","p","?","v","=","1","&">>,
      <<"l","i","s","t","=","&">>, <<"?","l","i","s","t","=","Q","&">> }

UrlMarkers == { ListMarker, << >>, <<"l","i","s","t">>, <<"L","I","S","T","=">> }

UrlTokens == { << >>, <<"P","1">>, <<"P","L","_","-","x","9">>, <<"a">> }

\* what follows the identifier: nothing, or text that starts with a character
\* no identifier contains
UrlSuffixes == { << >>, <<"&","t","=","1">>, <<"#">>, <<" ","x">> }

ExtractCalls ==
    { [fn |-> "extract_playlist_id", prefix |-> p, marker |-> m, token |-> t, suffix |-> x,
       url |-> Concat4(p, m, t, x), returned |-> FALSE, result |-> None] :
          p \in UrlPrefixes, m \in UrlMarkers, t \in UrlTokens, x \in UrlSuffixes }

InitExtract ==
    /\ user_data = EmptyDict
    /\ run = [r \in Runs |-> IdleRun]
    /\ reply = [op |-> "none"]
    /\ cmds = 0
    /\ call \in ExtractCalls

\* main.py:86: playlist_id = extract_playlist_id(playlist_url)
ApplyExtract ==
    /\ call.fn = "extract_playlist_id"
    /\ ~call.returned
    /\ call' = [call EXCEPT !.returned = TRUE, !.result = extract_playlist_id(call.url)]
    /\ UNCHANGED <<user_data, run, reply, cmds>>

NextExtract == ApplyExtract

SpecExtract == InitExtract /\ [][NextExtract]_vars

-----------------------------------------------------------------------------
(* the body of the inner try (main.py:131-142) applied on its own to one      *)
(* value of ytt_api.fetch()                                                   *)

\* the attribute is absent (None) or holds one of these values
TranscriptAttrValues ==
    { None, Some(NotIterable), Some(Iter(<< >>)), Some(Iter(<<DictEntry("a")>>)),
      Some(Iter(<<DictEntry("a"), ObjEntry("b")>>)),
      Some(Iter(<<ObjEntry("b"), DictEntry("a")>>)),
      Some(Iter(<<DictEntry("a"), DictNoText>>)) }

CaptionsAttrValues ==
    { None, Some(NotIterable), Some(Iter(<<ObjEntry("x")>>)),
      Some(Iter(<<DictEntry("x"), DictEntry("y")>>)), Some(Iter(<<ObjNoText>>)) }

SelfValues ==
    { NotIterable, Iter(<< >>), Iter(<<DictEntry("p")>>),
      Iter(<<ObjEntry("p"), DictEntry("q"), ObjEntry("r")>>),
      Iter(<<DictEntry("p"), ObjNoText>>) }

\* the attributes of an object whose transcript and captions are t and c
AttrsOf(t, c) ==
    [a \in { n \in {"transcript", "captions"} : (IF n = "transcript" THEN t ELSE c) # None } |->
        Val(IF a = "transcript" THEN t ELSE c)]

FetchResults ==
    { [kind |-> "raise", type |-> "TranscriptsDisabled", msg |-> "subtitles are disabled"] }
    \cup { [kind |-> "data", self |-> x, attrs |-> AttrsOf(t, c)] :
               t \in TranscriptAttrValues, c \in CaptionsAttrValues, x \in SelfValues }

InitTranscript ==
    /\ user_data = EmptyDict
    /\ run = [r \in Runs |-> IdleRun]
    /\ reply = [op |-> "none"]
    /\ cmds = 0
    /\ call \in { [fn |-> "transcript_text", response |-> resp, returned |-> FALSE,
                   result |-> Raised("", "")] : resp \in FetchResults }

\* main.py:131-148: fetch() has returned or raised; the try body runs on it
ApplyTranscript ==
    /\ call.fn = "transcript_text"
    /\ ~call.returned
    /\ call' = [call EXCEPT !.returned = TRUE, !.result = resolve_transcript(call.response)]
    /\ UNCHANGED <<user_data, run, reply, cmds>>

NextTranscript == ApplyTranscript

SpecTranscript == InitTranscript /\ [][NextTranscript]_vars

-----------------------------------------------------------------------------
(* Vocabulary of the properties *)

StageOrder == <<"lookup", "transcript", "summarize", "cache">>

IsPrefix(s, t) == Len(s) <= Len(t) /\ SubSeq(t, 1, Len(s)) = s

\* the stage enters the call log of run r in this step
Started(r, stage) == stage \in Range(run'[r].trace) /\ stage \notin Range(run[r].trace)

Registered(u, n) == u \in DOMAIN user_data /\ n \in DOMAIN user_data[u]

Linked(u, n) == Registered(u, n) /\ user_data[u][n].playlist_id # None

Cached(u, n) == Registered(u, n) /\ user_data[u][n].cached_lecture # None

Done(r) == run[r].pc = "done"

Tag(r) == run[r].outcome.tag

\* the (user, subject) pair run r was invoked for
KeyOf(r) == <<Val(run[r].user_id), Val(run[r].subject_name)>>

-----------------------------------------------------------------------------
(* C1: in every run the calls happen in the order video lookup, transcript   *)
(* fetch, summarization, cache write, and each one only once the stage before *)
(* it has produced its result in the same run: the transcript call only with  *)
(* a resolved video, the summarization call only with a transcript, the cache *)
(* write only with a returned summary.                                        *)
C1_StagesInOrder ==
    [][\A r \in Runs :
         /\ IsPrefix(run'[r].trace, StageOrder)
         /\ Started(r, "lookup") =>
                run[r].trace = << >> /\ run[r].playlist_id # None
         /\ Started(r, "transcript") =>
                run[r].trace = <<"lookup">> /\ run[r].video_id # None
         /\ Started(r, "summarize") =>
                run[r].trace = <<"lookup", "transcript">> /\ run[r].transcript_text # None
         /\ Started(r, "cache") =>
                /\ SubSeq(run'[r].trace, 1, 3) = <<"lookup", "transcript", "summarize">>
                /\ run'[r].outcome.tag = "success"
                /\ Cached(KeyOf(r)[1], KeyOf(r)[2])'
                /\ Val(user_data'[KeyOf(r)[1]][KeyOf(r)[2]].cached_lecture).summary
                       = run'[r].outcome.summary
      ]_vars

\* a run that went through all four stages
C1_Witness ==
    \E r \in Runs : Done(r) /\ run[r].trace = StageOrder /\ Tag(r) = "success"

-----------------------------------------------------------------------------
(* C2: a run for an unknown user, an unregistered subject or a registered     *)
(* subject without playlist ends at once with not_configured, has called no   *)
(* service, and leaves the registry as it was.                                *)
C2_NotConfigured ==
    [][/\ \A r \in Runs : \A a \in Args :
         (run[r].pc = "idle" /\ ~Linked(a[1], Lower(a[2])) /\ Begin(r, a[1], a[2])) =>
             /\ run'[r].pc = "done"
             /\ run'[r].outcome = [tag |-> "not_configured"]
             /\ run'[r].trace = << >>
             /\ user_data' = user_data
       /\ \A r \in Runs : run'[r].outcome.tag = "not_configured" => run'[r].trace = << >>
      ]_vars

\* two finished not_configured runs: one of a user without profile, one of a
\* registered subject that has no playlist
C2_Witness ==
    \E r1, r2 \in Runs :
        /\ Done(r1) /\ Tag(r1) = "not_configured" /\ run[r1].trace = << >>
        /\ KeyOf(r1)[1] \notin DOMAIN user_data
        /\ Done(r2) /\ Tag(r2) = "not_configured" /\ run[r2].trace = << >>
        /\ Registered(KeyOf(r2)[1], KeyOf(r2)[2])
        /\ ~Linked(KeyOf(r2)[1], KeyOf(r2)[2])

-----------------------------------------------------------------------------
(* C3: every failing stage has an outcome of its own: two finished runs that  *)
(* failed in different stages never hand the caller the same outcome.         *)

\* the stage whose call was the last one of a run that ended in a failure
FailedAt(r) ==
    IF Done(r) /\ Tag(r) \in {"error", "transcript_failed"}
    THEN run[r].trace[Len(run[r].trace)]
    ELSE "none"

C3_DistinctOutcomes ==
    \A r1, r2 \in Runs :
        (FailedAt(r1) # "none" /\ FailedAt(r2) # "none" /\ FailedAt(r1) # FailedAt(r2))
            => run[r1].outcome # run[r2].outcome

-----------------------------------------------------------------------------
(* C4: a cached lecture has a non-empty title, transcript and summary, and is *)
(* what one successful run produced.                                          *)
C4_CacheNonEmptyConsistent ==
    \A u \in DOMAIN user_data : \A n \in DOMAIN user_data[u] :
        Cached(u, n) =>
            LET c == Val(user_data[u][n].cached_lecture)
            IN /\ c.title # "" /\ c.transcript # "" /\ c.summary # ""
               /\ \E r \in Runs :
                      /\ Done(r) /\ Tag(r) = "success" /\ KeyOf(r) = <<u, n>>
                      /\ run[r].outcome.title = c.title
                      /\ run[r].outcome.summary = c.summary

-----------------------------------------------------------------------------
-----------------------------------------------------------------------------
(* C6: when the hosting service returns no item the run ends with             *)
(* playlist_empty after that one call, and the registry is as it was.         *)
C6_PlaylistEmpty ==
    [][/\ \A r \in Runs : \A response \in HostingResponses :
            (/\ run[r].pc = "lookup"
             /\ response.kind = "ok" /\ response.items = << >>
             /\ Lookup(r, response)) =>
                /\ run'[r].pc = "done"
                /\ run'[r].outcome = [tag |-> "playlist_empty"]
                /\ run'[r].trace = <<"lookup">>
                /\ user_data' = user_data
       /\ \A r \in Runs : run'[r].outcome.tag = "playlist_empty" => run'[r].trace = <<"lookup">>
      ]_vars

\* a run found the playlist empty for a subject that holds a cached lecture
C6_Witness ==
    \E r \in Runs :
        /\ Done(r) /\ Tag(r) = "playlist_empty" /\ run[r].trace = <<"lookup">>
        /\ Cached(KeyOf(r)[1], KeyOf(r)[2])

-----------------------------------------------------------------------------
(* C7: a failure in the transcript stage ends the run with transcript_failed  *)
(* carrying the failure's type and message and the video URL; the run never   *)
(* ends such a stage with the catch-all outcome, and calls no summarization.  *)

\* the response is none of: an object with "transcript", an object with
\* "captions", an iterable
C7_Unrecognised(response) ==
    /\ response.kind = "data"
    /\ DOMAIN response.attrs \cap {"transcript", "captions"} = {}
    /\ ~response.self.iterable

C7_TranscriptFailure ==
    [][/\ \A r \in Runs : \A response \in TranscriptResponses :
            (/\ run[r].pc = "transcript"
             /\ response.kind = "raise" \/ C7_Unrecognised(response)
             /\ Transcript(r, response)) =>
                /\ run'[r].pc = "done"
                /\ run'[r].outcome.tag = "transcript_failed"
                /\ run'[r].outcome.url = Val(run[r].video_url)
                /\ response.kind = "raise" =>
                       run'[r].outcome.detail = [type |-> response.type, msg |-> response.msg]
                /\ C7_Unrecognised(response) => run'[r].outcome.detail.type = "TypeError"
       /\ \A r \in Runs :
            (run[r].pc = "transcript" /\ run'[r].pc = "done") =>
                /\ run'[r].outcome.tag = "transcript_failed"
                /\ run'[r].outcome.url = Val(run[r].video_url)
                /\ run'[r].trace = <<"lookup", "transcript">>
       /\ \A r \in Runs :
            run'[r].outcome.tag = "transcript_failed" => "summarize" \notin Range(run'[r].trace)
      ]_vars

\* one run ended on disabled captions, the other on a response of no known shape
C7_Witness ==
    \E r1, r2 \in Runs :
        /\ Done(r1) /\ Tag(r1) = "transcript_failed"
        /\ run[r1].outcome.detail.type = "TranscriptsDisabled"
        /\ run[r1].outcome.url = video_url_of("v1")
        /\ Done(r2) /\ Tag(r2) = "transcript_failed"
        /\ run[r2].outcome.detail.type = "TypeError"
        /\ run[r2].outcome.url = video_url_of("v2")

-----------------------------------------------------------------------------
(* C8: a successful run leaves in the subject exactly its own title,          *)
(* transcript and summary, whatever was cached before, and hands the caller   *)
(* title, URL and summary.                                                    *)
C8_CacheReplaced ==
    [][\A r \in Runs : \A response \in SummaryResponses :
         (run[r].pc = "summarize" /\ response.kind = "ok" /\ Summarize(r, response)) =>
             /\ user_data'[KeyOf(r)[1]][KeyOf(r)[2]].cached_lecture =
                    Some([title |-> Val(run[r].video_title),
                          transcript |-> Val(run[r].transcript_text),
                          summary |-> response.content])
             /\ run'[r].outcome = [tag |-> "success",
                                   title |-> Val(run[r].video_title),
                                   url |-> Val(run[r].video_url),
                                   summary |-> response.content]
      ]_vars

\* two runs succeeded for the same subject with different lectures and the
\* cache holds one lecture
C8_Witness ==
    \E r1, r2 \in Runs :
        /\ Done(r1) /\ Tag(r1) = "success"
        /\ Done(r2) /\ Tag(r2) = "success"
        /\ KeyOf(r1) = KeyOf(r2)
        /\ run[r1].outcome.title # run[r2].outcome.title
        /\ Val(user_data[KeyOf(r1)[1]][KeyOf(r1)[2]].cached_lecture).title
               = run[r1].outcome.title

-----------------------------------------------------------------------------
(* C9: registering a name the user already has answers already_exists and     *)
(* changes nothing in the registry, whether the subject is unlinked, linked   *)
(* or cached.                                                                 *)
C9_RegisterIdempotent ==
    [][(/\ cmds' # cmds
        /\ reply'.op = "addsubject"
        /\ Registered(reply'.user, reply'.name)) =>
            /\ reply'.result = "already_exists"
            /\ user_data' = user_data
      ]_vars

\* the last command registered again a subject that holds a cached lecture
C9_Witness ==
    /\ reply.op = "addsubject"
    /\ reply.result = "already_exists"
    /\ Cached(reply.user, reply.name)

-----------------------------------------------------------------------------
(* C10: linking a playlist to a subject that was never registered answers     *)
(* subject_not_found and creates neither the subject nor the profile.         *)
C10_LinkUnregistered ==
    [][(/\ cmds' # cmds
        /\ reply'.op = "setplaylist"
        /\ ~Registered(reply'.user, reply'.name)) =>
            /\ reply'.result = "subject_not_found"
            /\ user_data' = user_data
      ]_vars

\* the last command tried to link a subject of a user who has no profile
C10_Witness ==
    /\ reply.op = "setplaylist"
    /\ reply.result = "subject_not_found"
    /\ reply.user \notin DOMAIN user_data

-----------------------------------------------------------------------------
(* C11: extract_playlist_id returns the identifier that follows the first     *)
(* list= marker that has one; it returns None when the input has no list=     *)
(* marker; and it returns a bare identifier-shaped string unchanged.          *)

IdentifierShaped(s) == s # << >> /\ \A k \in DOMAIN s : IdChar(s[k])

\* the input is an identifier and nothing else
BareIdentifier(c) == c.prefix = << >> /\ c.marker = << >> /\ c.suffix = << >> /\ c.token # << >>

\* the input has list= followed by an identifier: in its prefix, or made of its
\* marker and token
HasListToken(c) ==
    \/ c.prefix = <<"?","l","i","s","t","=","Q","&">>
    \/ c.marker = ListMarker /\ c.token # << >>

\* the identifier that follows the first such list=
FirstListToken(c) ==
    IF c.prefix = <<"?","l","i","s","t","=","Q","&">> THEN <<"Q">> ELSE c.token

\* the input contains the five characters list=
HasMarker(c) ==
    \E i \in 1..(Len(c.url) - 4) : SubSeq(c.url, i, i + 4) = ListMarker

-----------------------------------------------------------------------------
(* C12: set_playlist on a registered subject with a URL that has an           *)
(* identifier answers ok and stores the extracted identifier whatever the     *)
(* subject held before; the subject's cached lecture, every other subject     *)
(* and every run stay as they were.                                           *)

\* every subject other than (u, n) is the same before and after the step
OthersUnchanged(u, n) ==
    /\ DOMAIN user_data' = DOMAIN user_data
    /\ \A v \in DOMAIN user_data :
          /\ DOMAIN user_data'[v] = DOMAIN user_data[v]
          /\ \A m \in DOMAIN user_data[v] :
                (<<v, m>> # <<u, n>>) => user_data'[v][m] = user_data[v][m]

\* what extract_playlist_id gives for each URL the model links
Extracted == [url \in PlaylistUrls |-> extract_playlist_id(url)]

\* the name in the answer is the folded one, and set_playlist does for it what
\* it does for every spelling of it
C12_LinkOverwrites ==
    [][(/\ cmds' # cmds
        /\ reply'.op = "setplaylist"
        /\ Registered(reply'.user, reply'.name)) =>
            \A url \in PlaylistUrls :
                Extracted[url] # None =>
                    \/ /\ reply'.result = "ok"
                       /\ user_data'[reply'.user][reply'.name].playlist_id = Extracted[url]
                       /\ user_data'[reply'.user][reply'.name].cached_lecture =
                              user_data[reply'.user][reply'.name].cached_lecture
                       /\ OthersUnchanged(reply'.user, reply'.name)
                       /\ run' = run
                    \/ ~set_playlist(reply'.user, reply'.name, url)
      ]_vars

\* a subject with a cached lecture was linked again: a run that began before
\* the last link still holds the identifier the subject had then
C12_Witness ==
    /\ reply.op = "setplaylist" /\ reply.result = "ok"
    /\ Cached(reply.user, reply.name)
    /\ \E r \in Runs :
          /\ run[r].pc \in {"lookup", "transcript", "summarize"}
          /\ KeyOf(r) = <<reply.user, reply.name>>
          /\ run[r].playlist_id # user_data[reply.user][reply.name].playlist_id

-----------------------------------------------------------------------------
(* C13: set_playlist on a registered subject with a URL in which              *)
(* extract_playlist_id finds no identifier answers invalid_url at once: the   *)
(* registry is left as it was, so the subject keeps the playlist it had, and  *)
(* no run makes a call; and every playlist identifier in the registry is a    *)
(* non-empty string of letters, digits, underscores and hyphens.              *)

WellFormedRegistry ==
    \A u \in DOMAIN user_data : \A n \in DOMAIN user_data[u] :
        user_data[u][n].playlist_id # None =>
            IdentifierShaped(Val(user_data[u][n].playlist_id))

C13_MalformedRejected ==
    /\ []WellFormedRegistry
    /\ [][(/\ cmds' # cmds
           /\ reply'.op = "setplaylist"
           /\ Registered(reply'.user, reply'.name)) =>
               \A url \in PlaylistUrls :
                   Extracted[url] = None =>
                       \/ /\ reply'.result = "invalid_url"
                          /\ user_data' = user_data
                          /\ run' = run
                       \/ ~set_playlist(reply'.user, reply'.name, url)
         ]_vars

\* a linked subject was linked again with a URL that has no identifier, and is
\* still linked
C13_Witness ==
    /\ reply.op = "setplaylist" /\ reply.result = "invalid_url"
    /\ Linked(reply.user, reply.name)

-----------------------------------------------------------------------------
(* C14: the transcript text is the texts of the entries of one list, in       *)
(* order, with one space between neighbours: the transcript attribute when    *)
(* the value has one, else the captions attribute when it has one, else the   *)
(* value iterated itself; entries of the other lists never enter the text,    *)
(* and an entry's text is taken from a mapping and from an object alike.      *)

\* the one list the text comes from
ChosenShape(resp) ==
    IF "transcript" \in DOMAIN resp.attrs THEN resp.attrs["transcript"]
    ELSE IF "captions" \in DOMAIN resp.attrs THEN resp.attrs["captions"]
    ELSE resp.self

\* the list can be walked and each of its entries has a text
Usable(list) == list.iterable /\ \A i \in DOMAIN list.items : list.items[i].has_text

\* at most three texts, one space between neighbours
SpaceJoined(items) ==
    CASE Len(items) = 0 -> ""
      [] Len(items) = 1 -> items[1].text
      [] Len(items) = 2 -> items[1].text \o " " \o items[2].text
      [] Len(items) = 3 -> items[1].text \o " " \o items[2].text \o " " \o items[3].text

C14_TranscriptShape ==
    (call.fn = "transcript_text" /\ call.returned /\ call.response.kind = "data") =>
        /\ Usable(ChosenShape(call.response)) =>
              call.result = Returned(SpaceJoined(ChosenShape(call.response).items))
        /\ call.result.ok => Usable(ChosenShape(call.response))

\* the value had a transcript, captions and entries of its own, all with
\* texts; the text is that of the transcript, a mapping's then an object's
C14_Witness ==
    /\ call.fn = "transcript_text" /\ call.returned
    /\ call.response.kind = "data"
    /\ call.response.attrs = AttrsOf(Some(Iter(<<DictEntry("a"), ObjEntry("b")>>)),
                                     Some(Iter(<<DictEntry("x"), DictEntry("y")>>)))
    /\ call.response.self = Iter(<<DictEntry("p")>>)
    /\ call.result = Returned("a b")

-----------------------------------------------------------------------------
(* C15: a run calls the hosting service, the transcript service and the       *)
(* summarisation service at most once each, and a call that fails is the      *)
(* run's last: the run is over in the same step and never moves again.        *)

Services == {"lookup", "transcript", "summarize"}

Calls(r, service) == { i \in DOMAIN run[r].trace : run[r].trace[i] = service }

FailureTags == {"error", "transcript_failed"}

C15_NoRetries ==
    /\ [](\A r \in Runs : \A service \in Services : Cardinality(Calls(r, service)) <= 1)
    /\ [][\A r \in Runs :
            /\ Done(r) => run'[r] = run[r]
            /\ (run'[r].outcome.tag \in FailureTags /\ ~Done(r)) =>
                  /\ run'[r].pc = "done"
                  /\ Len(run'[r].trace) = Len(run[r].trace) + 1
         ]_vars

\* one run ended at a lookup that raised, having called nothing else, while
\* another, after it, called each service once
C15_Witness ==
    /\ Done("r1") /\ Tag("r1") = "error" /\ run["r1"].trace = <<"lookup">>
    /\ run["r2"].pc = "done" /\ Tag("r2") = "success"
    /\ run["r2"].trace = <<"lookup", "transcript", "summarize", "cache">>

-----------------------------------------------------------------------------
(* C16: when every service call returns or raises in the end, every run that  *)
(* was started ends, with one outcome out of not_configured, playlist_empty,  *)
(* transcript_failed, error and success, which it keeps; and a run only moves *)
(* forward through idle, lookup, transcript, summarize, done, never entering  *)
(* a position twice.                                                          *)

Position(pc) ==
    CASE pc = "idle" -> 0
      [] pc = "lookup" -> 1
      [] pc = "transcript" -> 2
      [] pc = "summarize" -> 3
      [] pc = "done" -> 4

TerminalOutcomes == {"not_configured", "playlist_empty", "transcript_failed", "error", "success"}

C16_Terminates ==
    /\ \A r \in Runs : (run[r].pc # "idle") ~> Done(r)
    /\ [](\A r \in Runs : Done(r) <=> Tag(r) \in TerminalOutcomes)
    /\ [](\A r \in Runs : ~Done(r) => Tag(r) = "none")
    /\ [][\A r \in Runs :
            run'[r] # run[r] =>
                /\ Position(run'[r].pc) > Position(run[r].pc)
                /\ ~Done(r)
         ]_vars

\* both runs are over: one through all stages, one stopped at the transcript
C16_Witness ==
    /\ Done("r1") /\ Tag("r1") = "success"
    /\ Done("r2") /\ Tag("r2") = "transcript_failed"
    /\ run["r2"].trace = <<"lookup", "transcript">>

-----------------------------------------------------------------------------
(* C17: whatever else goes on between its steps, no step of a run invoked for *)
(* a user and a subject changes the playlist or the cached lecture of any     *)
(* other subject, adds a subject or removes one.                              *)

-----------------------------------------------------------------------------
(* C18: no profile holds two subjects whose names differ only in letter case: *)
(* every name in the registry, in the answer to addsubject and setplaylist    *)
(* and in a run is the lower-case form of what was typed, so each spelling    *)
(* of a name leads to the one subject.                                        *)

SameIgnoringCase(s, t) ==
    /\ Len(s) = Len(t)
    /\ \A i \in DOMAIN s :
          \/ s[i] = t[i]
          \/ \E k \in DOMAIN UpperLetters : {s[i], t[i]} = {UpperLetters[k], LowerLetters[k]}

NoUpperCase(s) == \A i \in DOMAIN s : s[i] \notin Range(UpperLetters)

\* some spelling a caller may type folds to this name
TypedAs(u, n) == \E a \in Args : a[1] = u /\ SameIgnoringCase(a[2], n)

C18_NamesCaseFolded ==
    /\ \A u \in DOMAIN user_data :
          /\ \A n \in DOMAIN user_data[u] : NoUpperCase(n) /\ TypedAs(u, n)
          /\ \A n, m \in DOMAIN user_data[u] : SameIgnoringCase(n, m) => n = m
    /\ reply.op \in {"addsubject", "setplaylist"} =>
          NoUpperCase(reply.name) /\ TypedAs(reply.user, reply.name)
    /\ \A r \in Runs : run[r].pc # "idle" =>
          NoUpperCase(Val(run[r].subject_name))
              /\ TypedAs(Val(run[r].user_id), Val(run[r].subject_name))

\* the caller who only ever types Cs has one subject, cs: it was linked, a run
\* cached a lecture in it, and registering Cs again answered already_exists
C18_Witness ==
    /\ "u2" \in DOMAIN user_data
    /\ DOMAIN user_data["u2"] = { <<"c", "s">> }
    /\ Cached("u2", <<"c", "s">>)
    /\ reply = [op |-> "addsubject", user |-> "u2", name |-> <<"c", "s">>,
                result |-> "already_exists"]

-----------------------------------------------------------------------------
(* C19: no step of a run changes the playlist of any subject, and the cache   *)
(* commit changes the cached lecture only; so a playlist linked while the run *)
(* waits for a service stays linked. The run keeps the playlist it read when  *)
(* it began, asks the hosting service for that one, and still commits its     *)
(* cache when the subject was linked anew in the meantime.                    *)

PlaylistsUnchanged ==
    /\ DOMAIN user_data' = DOMAIN user_data
    /\ \A u \in DOMAIN user_data :
          /\ DOMAIN user_data'[u] = DOMAIN user_data[u]
          /\ \A n \in DOMAIN user_data[u] :
                user_data'[u][n].playlist_id = user_data[u][n].playlist_id

C19_RelinkNotLost ==
    [][\A r \in Runs :
          /\ run'[r] # run[r] => PlaylistsUnchanged
          /\ (run[r].pc = "idle" /\ run'[r].pc = "lookup") =>
                run'[r].playlist_id =
                    user_data[Val(run'[r].user_id)][Val(run'[r].subject_name)].playlist_id
          /\ Started(r, "lookup") =>
                run'[r].requested = run[r].playlist_id /\ run[r].playlist_id # None
          /\ (run[r].pc \in {"lookup", "transcript"} /\ ~Done(r)') =>
                run'[r].playlist_id = run[r].playlist_id
          /\ (run[r].pc = "summarize" /\ Tag(r)' = "success") =>
                /\ "cache" \in Range(run'[r].trace)
                /\ user_data'[KeyOf(r)[1]][KeyOf(r)[2]].cached_lecture # None
          /\ (run[r].pc # "idle" /\ cmds' # cmds) => run'[r] = run[r]
      ]_vars

\* a run asked for playlist P1, the subject was linked to PL_- before the run
\* ended, and the run has cached its lecture: the subject has both
C19_Witness ==
    \E r \in Runs :
        /\ Done(r) /\ Tag(r) = "success"
        /\ run[r].requested = Some(<<"P", "1">>)
        /\ user_data[KeyOf(r)[1]][KeyOf(r)[2]].playlist_id = Some(<<"P", "_", "-">>)
        /\ Cached(KeyOf(r)[1], KeyOf(r)[2])
        /\ Val(user_data[KeyOf(r)[1]][KeyOf(r)[2]].cached_lecture).title = run[r].outcome.title

-----------------------------------------------------------------------------
(* C20: a subject that has a cached lecture has a playlist; and no step       *)
(* removes a profile or a subject, or leaves a subject that had a playlist    *)
(* without one.                                                               *)

C20_CachedImpliesLinked ==
    /\ [](\A u \in DOMAIN user_data : \A n \in DOMAIN user_data[u] :
              Cached(u, n) => Linked(u, n))
    /\ [][/\ DOMAIN user_data \subseteq DOMAIN user_data'
          /\ \A u \in DOMAIN user_data :
                /\ DOMAIN user_data[u] \subseteq DOMAIN user_data'[u]
                /\ \A n \in DOMAIN user_data[u] :
                      user_data[u][n].playlist_id # None =>
                          user_data'[u][n].playlist_id # None
         ]_vars

\* a subject with a playlist and a cached lecture, after a setplaylist for it
\* that was turned down
C20_Witness ==
    /\ reply.op = "setplaylist" /\ reply.result = "invalid_url"
    /\ Cached(reply.user, reply.name)
    /\ Linked(reply.user, reply.name)

====
